---- MODULE Spec2Model ----
(***************************************************************************)
(* cq: a streaming select/where reader over comma separated text.          *)
(* The model follows src/main.rs: main's read loop over a 3-byte buffer,   *)
(* handle_value_end and handle_line_end.  Text values are kept as the byte *)
(* sequences they are made of; standard output is the sequence of lines    *)
(* written so far, each line the bytes before its line terminator.         *)
(***************************************************************************)
EXTENDS Integers, Sequences, FiniteSets, TLC

\* ------------------------------------------------------------ bounds
\* Longest input stream explored by Spec.
MaxLen == 4
\* Longest input stream explored by SpecAnd (one-byte reads, no LF or 0xFF).
MaxLenAnd == 7

\* Longest input stream explored by SpecSame.
MaxLenSame == 5
\* Most command line tokens after the executable path, and the longest
\* input stream, explored by SpecArgs.
MaxArgs == 4
MaxLenArgs == 2

\* ------------------------------------------------------------ constants
LF == 10
CR == 13
COMMA == 44
BufSize == 3

\* Bytes the input source may deliver: the three delimiters, two letters
\* ("a", "b") and 0xFF, a byte that occurs in no valid UTF-8 text.
Alphabet == {LF, CR, COMMA, 97, 98, 255}

\* The column names and filter values used on the command line: "a", "b".
NameA == <<97>>
NameB == <<98>>

\* ------------------------------------------------------------ state
VARIABLES
    args,      \* ReaderArgs: columns, filters (input is the stream below)
    state,     \* ReaderState, with the lines printed so far (out) and
               \* whether an unwrap() has panicked
    stream,    \* the bytes args.input has delivered so far
    pc,        \* "start", "parse": in parse_args; "run": in the read loop;
               \* "done": main returned Ok(()); "err_...": parse_args
               \* returned Err; "openfail": File::open(..).unwrap() panicked
    cmd        \* the Iterator over the command line: items, index

vars == <<args, state, stream, pc, cmd>>

\* ------------------------------------------------------------ helpers
Contains(seq, x) == \E i \in 1..Len(seq) : seq[i] = x

\* A slip that would let the predicate registered last win.
FindLastByColumn(filters, value) ==
    IF \E i \in 1..Len(filters) : filters[i].column = value
    THEN CHOOSE i \in 1..Len(filters) :
            /\ filters[i].column = value
            /\ \A j \in (i + 1)..Len(filters) : filters[j].column # value
    ELSE 0

\* args.filters.iter().find(|f| &f.column == value): the index of the first
\* predicate on the column named value, 0 when there is none.
FindByColumn(filters, value) ==
    IF \E i \in 1..Len(filters) : filters[i].column = value
    THEN CHOOSE i \in 1..Len(filters) :
            /\ filters[i].column = value
            /\ \A j \in 1..(i - 1) : filters[j].column # value
    ELSE 0

\* state.filters.iter_mut().find(|f| f.column_index == column_index): the
\* index of the first resolved filter at that field index, 0 when none.
FindByIndex(filters, ci) ==
    IF \E i \in 1..Len(filters) : filters[i].column_index = ci
    THEN CHOOSE i \in 1..Len(filters) :
            /\ filters[i].column_index = ci
            /\ \A j \in 1..(i - 1) : filters[j].column_index # ci
    ELSE 0

\* std::str::from_utf8 / String::from_utf8: Ok exactly for well-formed UTF-8,
\* and then the text has the same bytes.
RECURSIVE Utf8Valid(_)
Utf8Valid(s) ==
    LET n == Len(s)
        Cont(i) == i <= n /\ s[i] >= 128 /\ s[i] <= 191
        Drop(k) == SubSeq(s, k + 1, n)
    IN  IF n = 0 THEN TRUE
        ELSE LET b == s[1] IN
             IF b < 128 THEN Utf8Valid(Drop(1))
             ELSE IF b >= 194 /\ b <= 223 THEN Cont(2) /\ Utf8Valid(Drop(2))
             ELSE IF b = 224
                  THEN Cont(2) /\ s[2] >= 160 /\ Cont(3) /\ Utf8Valid(Drop(3))
             ELSE IF b = 237
                  THEN Cont(2) /\ s[2] <= 159 /\ Cont(3) /\ Utf8Valid(Drop(3))
             ELSE IF b >= 225 /\ b <= 239
                  THEN Cont(2) /\ Cont(3) /\ Utf8Valid(Drop(3))
             ELSE IF b = 240
                  THEN Cont(2) /\ s[2] >= 144 /\ Cont(3) /\ Cont(4)
                       /\ Utf8Valid(Drop(4))
             ELSE IF b = 244
                  THEN Cont(2) /\ s[2] <= 143 /\ Cont(3) /\ Cont(4)
                       /\ Utf8Valid(Drop(4))
             ELSE IF b >= 241 /\ b <= 243
                  THEN Cont(2) /\ Cont(3) /\ Cont(4) /\ Utf8Valid(Drop(4))
             ELSE FALSE

\* The line print!/println! write for to_print: the values joined by ",".
RECURSIVE JoinLine(_)
JoinLine(values) ==
    IF Len(values) = 0 THEN <<>>
    ELSE IF Len(values) = 1 THEN values[1]
    ELSE values[1] \o <<COMMA>> \o JoinLine(Tail(values))

Panic(s) == [s EXCEPT !.panicked = TRUE]

\* ------------------------------------------------------------ handlers
\* A slip that would OR the predicates: any() in place of all().
AnyMatched(fs) == Len(fs) = 0 \/ \E i \in 1..Len(fs) : fs[i].matched

AllMatched(fs) == \A i \in 1..Len(fs) : fs[i].matched

ClearToPrint(tp) == <<>>

\* A slip that would leave the field index running across records.
handle_line_end_keep_index(a, s) ==
    LET accepted == AllMatched(s.filters)
        prints   == accepted /\ Len(s.to_print) > 0
    IN  [s EXCEPT
            !.in_header = FALSE,
            !.current_value = <<>>,
            !.out = IF prints THEN Append(@, JoinLine(s.to_print)) ELSE @,
            !.to_print = IF prints THEN ClearToPrint(@) ELSE @,
            !.filters = [i \in 1..Len(s.filters) |->
                            [s.filters[i] EXCEPT !.matched = FALSE]]]

\* A slip that would leave the matched flags set at the end of a record.
handle_line_end_keep_flags(a, s) ==
    LET accepted == AllMatched(s.filters)
        prints   == accepted /\ Len(s.to_print) > 0
    IN  [s EXCEPT
            !.in_header = FALSE,
            !.column_index = 0,
            !.current_value = <<>>,
            !.out = IF prints THEN Append(@, JoinLine(s.to_print)) ELSE @,
            !.to_print = IF prints THEN ClearToPrint(@) ELSE @]

handle_line_end(a, s) ==
    LET accepted == AllMatched(s.filters)
        prints   == accepted /\ Len(s.to_print) > 0
    IN  [s EXCEPT
            !.in_header = FALSE,
            !.column_index = 0,
            !.current_value = <<>>,
            !.out = IF prints THEN Append(@, JoinLine(s.to_print)) ELSE @,
            !.to_print = IF prints THEN ClearToPrint(@) ELSE @,
            !.filters = [i \in 1..Len(s.filters) |->
                            [s.filters[i] EXCEPT !.matched = FALSE]]]

\* A slip that would stop resolving once every requested name has an index,
\* so that a repeated header name resolves once.
ResolveUntilFull(a, s) ==
    LET value == s.current_value
        fi    == FindByColumn(a.filters, value)
    IN  [s EXCEPT
            !.column_indexes =
                IF Contains(a.columns, value) /\ Len(@) < Len(a.columns)
                THEN Append(@, s.column_index) ELSE @,
            !.filters =
                IF fi # 0 /\ Len(@) < Len(a.filters)
                THEN Append(@, [column_index |-> s.column_index,
                                value |-> a.filters[fi].value,
                                matched |-> FALSE])
                ELSE @]

\* The header branch: resolve the field against -select and -where.
ResolveHeaderField(a, s) ==
    LET value == s.current_value
        fi    == FindByColumn(a.filters, value)
    IN  [s EXCEPT
            !.column_indexes =
                IF Contains(a.columns, value)
                THEN Append(@, s.column_index) ELSE @,
            !.filters =
                IF fi # 0
                THEN Append(@, [column_index |-> s.column_index,
                                value |-> a.filters[fi].value,
                                matched |-> FALSE])
                ELSE @]

\* A slip that would fall back to all columns when no name resolved.
ProjectedOrNoneResolved(a, s) ==
    \/ Contains(s.column_indexes, s.column_index)
    \/ Len(a.columns) = 0
    \/ Len(s.column_indexes) = 0

\* Whether a data field is pushed to to_print.
Projected(a, s) ==
    Contains(s.column_indexes, s.column_index) \/ Len(a.columns) = 0

\* The data branch: project the field, then evaluate the filter at its index.
EvalDataField(a, s) ==
    LET value == s.current_value
        ci    == s.column_index
        proj  == Projected(a, s)
        fi    == FindByIndex(s.filters, ci)
    IN  IF (proj \/ fi # 0) /\ ~Utf8Valid(value) THEN Panic(s)
        ELSE [s EXCEPT
                !.to_print = IF proj THEN Append(@, value) ELSE @,
                !.filters =
                    IF fi # 0 /\ value = s.filters[fi].value
                    THEN [@ EXCEPT ![fi].matched = TRUE] ELSE @]

\* A slip that would resolve names in every record, not only in the header.
handle_value_end_resolve_always(a, s) ==
    LET h == IF Utf8Valid(s.current_value)
             THEN ResolveHeaderField(a, s) ELSE Panic(s)
        r == IF s.in_header \/ h.panicked THEN h ELSE EvalDataField(a, h)
    IN  IF r.panicked THEN r
        ELSE [r EXCEPT !.column_index = @ + 1, !.current_value = <<>>]

\* A slip that would drop the else: a header field is resolved and then
\* projected and filtered like a data field.
handle_value_end_no_else(a, s) ==
    LET h == IF s.in_header
             THEN IF Utf8Valid(s.current_value)
                  THEN ResolveHeaderField(a, s) ELSE Panic(s)
             ELSE s
        r == IF h.panicked THEN h ELSE EvalDataField(a, h)
    IN  IF r.panicked THEN r
        ELSE [r EXCEPT !.column_index = @ + 1, !.current_value = <<>>]

handle_value_end(a, s) ==
    LET r == IF s.in_header
             THEN IF Utf8Valid(s.current_value)
                  THEN ResolveHeaderField(a, s) ELSE Panic(s)
             ELSE EvalDataField(a, s)
    IN  IF r.panicked THEN r
        ELSE [r EXCEPT !.column_index = @ + 1, !.current_value = <<>>]

\* handle_value_end(..); handle_line_end(..): a panic ends the run between.
EndRecord(a, s) ==
    LET r == handle_value_end(a, s)
    IN  IF r.panicked THEN r ELSE handle_line_end(a, r)

\* A slip that would take a line feed for a record delimiter.
ProcessByteLFEnds(a, s, b) ==
    IF s.panicked THEN s
    ELSE IF b = LF \/ b = CR THEN EndRecord(a, s)
    ELSE IF b = COMMA THEN handle_value_end(a, s)
    ELSE [s EXCEPT !.current_value = Append(@, b)]

\* A slip that would keep a line feed as field content.
ProcessByteKeepsLF(a, s, b) ==
    IF s.panicked THEN s
    ELSE IF b = CR THEN EndRecord(a, s)
    ELSE IF b = COMMA THEN handle_value_end(a, s)
    ELSE [s EXCEPT !.current_value = Append(@, b)]

\* One iteration of main's for loop: the match on state.buf[i].
ProcessByte(a, s, b) ==
    IF s.panicked THEN s
    ELSE IF b = LF THEN s
    ELSE IF b = CR THEN EndRecord(a, s)
    ELSE IF b = COMMA THEN handle_value_end(a, s)
    ELSE [s EXCEPT !.current_value = Append(@, b)]

\* A slip that would loop over the whole buffer, stale bytes included.
LoopWholeBuf(n) == 1..BufSize

\* The positions of buf the for loop visits after a read of n bytes.
LoopRange(n) == 1..n

\* for i in 0 .. len: the bytes of buf at the loop's positions, in order.
RECURSIVE ProcessFrom(_, _, _, _)
ProcessFrom(a, s, i, range) ==
    IF i \notin range THEN s
    ELSE ProcessFrom(a, ProcessByte(a, s, s.buf[i]), i + 1, range)

ProcessChunk(a, s, n) == ProcessFrom(a, s, 1, LoopRange(n))

\* input.read(&mut buf) returning Len(chunk): the first bytes of buf are
\* overwritten, the rest keep what they held.
ReadInto(buf, chunk) ==
    [i \in 1..Len(buf) |-> IF i <= Len(chunk) THEN chunk[i] ELSE buf[i]]

InitState ==
    [column_indexes |-> <<>>,
     filters        |-> <<>>,
     in_header      |-> TRUE,
     column_index   |-> 0,
     current_value  |-> <<>>,
     buf            |-> <<0, 0, 0>>,
     to_print       |-> <<>>,
     out            |-> <<>>,
     panicked       |-> FALSE]

\* The whole of main's run when the first read returns all of bytes at once
\* (a buffer as long as the input) and the second read returns 0.
WholeLoop(a, bytes) ==
    ProcessFrom(a, [InitState EXCEPT !.buf = bytes], 1, 1..Len(bytes))

WholeRun(a, bytes) ==
    LET r == WholeLoop(a, bytes)
    IN  IF r.panicked THEN r ELSE EndRecord(a, r)

\* ------------------------------------------------------------ parse_args
\* Command line tokens, as the bytes of their text: "-in", "-select",
\* "-where", "-eq", the executable path "cq" and an unknown flag "-x".
TokIn == <<45, 105, 110>>
TokSelect == <<45, 115, 101, 108, 101, 99, 116>>
TokWhere == <<45, 119, 104, 101, 114, 101>>
TokEq == <<45, 101, 113>>
TokExe == <<99, 113>>
TokUnknown == <<45, 120>>

\* select.starts_with("-")
StartsWithDash(tok) == Len(tok) > 0 /\ tok[1] = 45

\* Iterator::accept: the next item, if any, and the iterator moved past it.
accept(it) ==
    IF it.index < Len(it.items)
    THEN [some |-> TRUE, item |-> it.items[it.index + 1],
          it |-> [it EXCEPT !.index = @ + 1]]
    ELSE [some |-> FALSE, item |-> <<>>, it |-> it]

\* A slip that would leave the cursor behind the token that stopped -select.
refund_nothing(it) == it

\* Iterator::refund
refund(it) == [it EXCEPT !.index = @ - 1]

\* Iterator::expect: accept, with None turned into the error
expect(it) == accept(it)

\* The -select arm: names are pushed until a token starts with "-" (which
\* is given back) or the items run out.
RECURSIVE SelectLoop(_, _)
SelectLoop(it, columns) ==
    LET r == accept(it)
    IN  IF ~r.some THEN [it |-> it, columns |-> columns]
        ELSE IF StartsWithDash(r.item)
             THEN [it |-> refund(r.it), columns |-> columns]
             ELSE SelectLoop(r.it, Append(columns, r.item))

\* A slip that would take any token for the -eq literal.
WhereArmAnyEq(it) ==
    LET c == expect(it)
        e == expect(c.it)
        v == expect(e.it)
    IN  IF ~c.some THEN [it |-> c.it, err |-> "err_where_column"]
        ELSE IF ~e.some THEN [it |-> e.it, err |-> "err_where_eq"]
        ELSE IF ~v.some THEN [it |-> v.it, err |-> "err_eq_value"]
        ELSE [it |-> v.it, err |-> "", column |-> c.item, value |-> v.item]

\* The -where arm: column, the literal -eq, value; err is the Err returned,
\* "" when the predicate is pushed.
WhereArm(it) ==
    LET c == expect(it)
        e == expect(c.it)
        v == expect(e.it)
    IN  IF ~c.some THEN [it |-> c.it, err |-> "err_where_column"]
        ELSE IF ~e.some THEN [it |-> e.it, err |-> "err_where_eq"]
        ELSE IF e.item # TokEq THEN [it |-> e.it, err |-> "err_not_eq"]
        ELSE IF ~v.some THEN [it |-> v.it, err |-> "err_eq_value"]
        ELSE [it |-> v.it, err |-> "", column |-> c.item, value |-> v.item]

\* The values of pc that stand for an Err returned by parse_args.
ArgErrors ==
    {"err_exe", "err_in", "err_where_column", "err_where_eq", "err_not_eq",
     "err_eq_value", "err_unknown"}

\* args.expect("First argument should be the executable path")?
ParseExe ==
    /\ pc = "start"
    /\ LET r == expect(cmd)
       IN  /\ cmd' = r.it
           /\ pc' = IF r.some THEN "parse" ELSE "err_exe"
    /\ UNCHANGED <<args, state, stream>>

\* while let Some(arg) = args.accept(): the arm of the next token.
NextArg == accept(cmd)

\* "-in": the filename is expected and the file opened; File::open(..)
\* .unwrap() panics when the file cannot be opened.
ParseIn ==
    /\ pc = "parse"
    /\ NextArg.some /\ NextArg.item = TokIn
    /\ LET f == expect(NextArg.it)
       IN  /\ cmd' = f.it
           /\ IF ~f.some THEN pc' = "err_in"
              ELSE \E opened \in BOOLEAN :
                      pc' = IF opened THEN "parse" ELSE "openfail"
    /\ UNCHANGED <<args, state, stream>>

ParseSelect ==
    /\ pc = "parse"
    /\ NextArg.some /\ NextArg.item = TokSelect
    /\ LET r == SelectLoop(NextArg.it, args.columns)
       IN  /\ cmd' = r.it
           /\ args' = [args EXCEPT !.columns = r.columns]
    /\ UNCHANGED <<state, stream, pc>>

ParseWhere ==
    /\ pc = "parse"
    /\ NextArg.some /\ NextArg.item = TokWhere
    /\ LET r == WhereArm(NextArg.it)
       IN  /\ cmd' = r.it
           /\ IF r.err # ""
              THEN pc' = r.err /\ args' = args
              ELSE /\ pc' = "parse"
                   /\ args' = [args EXCEPT !.filters =
                                Append(@, [column |-> r.column,
                                           value |-> r.value])]
    /\ UNCHANGED <<state, stream>>

\* _ => return Err(format!("Unknown argument '{}'", arg))
ParseUnknown ==
    /\ pc = "parse"
    /\ NextArg.some /\ NextArg.item \notin {TokIn, TokSelect, TokWhere}
    /\ cmd' = NextArg.it
    /\ pc' = "err_unknown"
    /\ UNCHANGED <<args, state, stream>>

\* accept returns None: parse_args returns Ok(result) and main builds the
\* ReaderState.
ParseOk ==
    /\ pc = "parse"
    /\ ~NextArg.some
    /\ pc' = "run"
    /\ UNCHANGED <<args, state, stream, cmd>>

\* ------------------------------------------------------------ actions
Filter(c, v) == [column |-> c, value |-> v]

\* Command lines explored by Spec: no -select, or one name; no -where, or
\* one predicate.
ArgsChoices ==
    [columns : {<<>>, <<NameA>>, <<NameB>>},
     filters : {<<>>, <<Filter(NameA, NameA)>>, <<Filter(NameB, NameA)>>}]

\* Command lines explored by SpecAnd: one or two predicates, on different
\* columns, in either order; -select absent, one name, or two names given
\* against header order.
ArgsAnd ==
    [columns : {<<>>, <<NameB>>, <<NameB, NameA>>},
     filters : {<<Filter(NameA, NameA)>>,
                <<Filter(NameA, NameA), Filter(NameB, NameA)>>,
                <<Filter(NameB, NameB), Filter(NameA, NameA)>>}]

\* A command line that parse_args turns into the ReaderArgs a.
RECURSIVE WhereTokens(_)
WhereTokens(filters) ==
    IF Len(filters) = 0 THEN <<>>
    ELSE <<TokWhere, filters[1].column, TokEq, filters[1].value>>
            \o WhereTokens(Tail(filters))

CommandLine(a) ==
    <<TokExe>>
        \o (IF Len(a.columns) = 0 THEN <<>> ELSE <<TokSelect>> \o a.columns)
        \o WhereTokens(a.filters)

\* The state in which the read loop starts: parse_args has returned the
\* ReaderArgs and its iterator has run through the command line.
InitWith(choices) ==
    /\ args \in choices
    /\ state = InitState
    /\ stream = <<>>
    /\ pc = "run"
    /\ cmd = [items |-> CommandLine(args), index |-> Len(CommandLine(args))]

\* A read that returns Len(chunk) > 0 bytes, and the for loop over them.
ReadChunk(chunk) ==
    /\ pc = "run"
    /\ ~state.panicked
    /\ state' = ProcessChunk(args,
                             [state EXCEPT !.buf = ReadInto(@, chunk)],
                             Len(chunk))
    /\ stream' = stream \o chunk
    /\ UNCHANGED <<args, pc, cmd>>

\* A read that returns 0: the loop ends, the pending field and record are
\* flushed and main returns.
EndOfStream ==
    /\ pc = "run"
    /\ ~state.panicked
    /\ state' = EndRecord(args, state)
    /\ pc' = "done"
    /\ UNCHANGED <<args, stream, cmd>>

\* The source delivers between 1 and maxRead bytes of the alphabet per read,
\* as long as the stream stays within maxLen bytes.
Reads(alphabet, maxRead, maxLen) ==
    \E k \in 1..maxRead :
        /\ Len(stream) + k <= maxLen
        /\ \E chunk \in [1..k -> alphabet] : ReadChunk(chunk)

Init == InitWith(ArgsChoices)

Next ==
    \/ Reads(Alphabet, BufSize, MaxLen)
    \/ EndOfStream

Spec == Init /\ [][Next]_vars

\* Longer streams over the delimiters and letters only, read a byte at a
\* time (the finest chunking; ChunkInvariance covers the others).
InitAnd == InitWith(ArgsAnd)

NextAnd ==
    \/ Reads({CR, COMMA, 97, 98}, 1, MaxLenAnd)
    \/ EndOfStream

SpecAnd == InitAnd /\ [][NextAnd]_vars

\* The spec's worked example: -select city -where name -eq Ada over the
\* rows Ada,London and Bob,Paris, the header line ended by a lone LF (as the
\* example is written) or by CR LF.
TextName == <<110, 97, 109, 101>>
TextCity == <<99, 105, 116, 121>>
TextAda == <<65, 100, 97>>
TextLondon == <<76, 111, 110, 100, 111, 110>>
TextBob == <<66, 111, 98>>
TextParis == <<80, 97, 114, 105, 115>>

ExampleArgs ==
    [columns : {<<TextCity>>}, filters : {<<Filter(TextName, TextAda)>>}]

ExampleRows ==
    TextAda \o <<COMMA>> \o TextLondon \o <<CR, LF>>
        \o TextBob \o <<COMMA>> \o TextParis \o <<CR, LF>>

ExampleHeader == TextName \o <<COMMA>> \o TextCity

ExampleAsWritten == ExampleHeader \o <<LF>> \o ExampleRows

ExampleCRLF == ExampleHeader \o <<CR, LF>> \o ExampleRows

\* The source holds one of the two inputs and delivers its next 1..BufSize
\* bytes per read; it returns 0 once the input is exhausted.
ReadsOf(inputs) ==
    \E input \in inputs : \E k \in 1..BufSize :
        /\ Len(stream) + k <= Len(input)
        /\ SubSeq(input, 1, Len(stream)) = stream
        /\ ReadChunk(SubSeq(input, Len(stream) + 1, Len(stream) + k))

EndOf(inputs) == stream \in inputs /\ EndOfStream

InitExample == InitWith(ExampleArgs)

NextExample ==
    \/ ReadsOf({ExampleAsWritten, ExampleCRLF})
    \/ EndOf({ExampleAsWritten, ExampleCRLF})

SpecExample == InitExample /\ [][NextExample]_vars

\* Two predicates on the same column (and, for contrast, on two columns),
\* over the delimiters and letters only, read a byte at a time.
ArgsSame ==
    [columns : {<<>>, <<NameA>>},
     filters : {<<Filter(NameA, NameA), Filter(NameA, NameB)>>,
                <<Filter(NameA, NameB), Filter(NameA, NameA)>>,
                <<Filter(NameA, NameA), Filter(NameB, NameB)>>}]

InitSame == InitWith(ArgsSame)

NextSame ==
    \/ Reads({CR, COMMA, 97, 98}, 1, MaxLenSame)
    \/ EndOfStream

SpecSame == InitSame /\ [][NextSame]_vars

\* main from its start: any command line of up to MaxArgs tokens (or none at
\* all, not even the executable path) is parsed, and then a short stream read.
Tokens == {TokIn, TokSelect, TokWhere, TokEq, TokUnknown, NameA, NameB}

CommandLines ==
    {<<>>} \cup
    UNION {{<<TokExe>> \o rest : rest \in [1..n -> Tokens]} : n \in 0..MaxArgs}

InitArgs ==
    /\ cmd \in [items : CommandLines, index : {0}]
    /\ args = [columns |-> <<>>, filters |-> <<>>]
    /\ state = InitState
    /\ stream = <<>>
    /\ pc = "start"

NextArgs ==
    \/ ParseExe
    \/ ParseIn
    \/ ParseSelect
    \/ ParseWhere
    \/ ParseUnknown
    \/ ParseOk
    \/ Reads({CR, 97}, BufSize, MaxLenArgs)
    \/ EndOfStream

SpecArgs == InitArgs /\ [][NextArgs]_vars

\* ------------------------------------------------------------ reference
\* What the input means, read off the byte stream alone: line feeds dropped,
\* records separated by CR, fields separated by commas.
NoLF(bytes) == SelectSeq(bytes, LAMBDA b : b # LF)

RECURSIVE SplitOn(_, _)
SplitOn(bytes, d) ==
    IF \A i \in 1..Len(bytes) : bytes[i] # d THEN <<bytes>>
    ELSE LET i == CHOOSE i \in 1..Len(bytes) :
                    bytes[i] = d /\ \A j \in 1..(i - 1) : bytes[j] # d
         IN  <<SubSeq(bytes, 1, i - 1)>>
                 \o SplitOn(SubSeq(bytes, i + 1, Len(bytes)), d)

\* Every record of the stream, the header first; the last one is the record
\* the stream ends in (one empty field right after a CR).
Records(bytes) ==
    LET pieces == SplitOn(NoLF(bytes), CR)
    IN  [k \in 1..Len(pieces) |-> SplitOn(pieces[k], COMMA)]

HeaderOf(bytes) == Records(bytes)[1]

\* The data records: every record after the header, except the empty rest
\* after a trailing record delimiter.
DataRecords(bytes) ==
    LET recs == Records(bytes)
        n    == Len(recs)
    IN  IF n >= 2 /\ recs[n] = << <<>> >>
        THEN SubSeq(recs, 2, n - 1) ELSE SubSeq(recs, 2, n)

\* The elements of seq at the positions in I, in order.
Pick(seq, I) ==
    LET idx == SelectSeq([i \in 1..Len(seq) |-> i], LAMBDA i : i \in I)
    IN  [k \in 1..Len(idx) |-> seq[idx[k]]]

\* Positions (from 1) of the header fields that -select names; all positions
\* when -select is absent.
SelectedPositions(header, columns, n) ==
    {i \in 1..n : Len(columns) = 0
                  \/ (i <= Len(header) /\ Contains(columns, header[i]))}

\* The projected fields of a record, in column order, each once.
ProjectionOf(rec, header, columns) ==
    Pick(rec, SelectedPositions(header, columns, Len(rec)))

\* The record has, for every predicate, the expected value in a column of
\* the predicate's name.
MatchesAll(rec, header, filters) ==
    \A k \in 1..Len(filters) :
        \E i \in 1..Len(header) :
            /\ header[i] = filters[k].column
            /\ i <= Len(rec)
            /\ rec[i] = filters[k].value

\* Number of records that have ended: every CR ends one, and so does the
\* end of the stream.
Ended(bytes, p) ==
    IF p = "done" THEN Len(Records(bytes)) ELSE Len(Records(bytes)) - 1

\* ------------------------------------------------------------ claims

\* C1: chunk-boundary invariance. However the reads cut the stream, the
\* lines written (and whether the run aborted) are those of a run whose one
\* read returns the whole stream.
ChunkInvariance ==
    LET w == IF pc = "done" THEN WholeRun(args, stream)
                            ELSE WholeLoop(args, stream)
    IN  state.out = w.out /\ state.panicked = w.panicked

\* C1 witness: a finished run fed one byte per read (buf[2] was never
\* written) that wrote a two-byte field, which therefore straddled two reads.
ChunkInvarianceWitness ==
    /\ pc = "done"
    /\ state.buf[2] = 0
    /\ Len(stream) >= 3
    /\ \E k \in 1..Len(state.out) : state.out[k] = <<97, 98>>

\* C2: the pending output list holds only values of the record being read:
\* in the data phase it is the projection of the fields finalized so far in
\* the current record, at most one per field.
PendingOnlyCurrentRecord ==
    (pc = "run" /\ ~state.panicked /\ ~state.in_header) =>
        LET recs == Records(stream)
            cur  == recs[Len(recs)]
            fin  == SubSeq(cur, 1, Len(cur) - 1)
        IN  /\ state.to_print = ProjectionOf(fin, HeaderOf(stream), args.columns)
            /\ Len(state.to_print) <= state.column_index

\* C3: a predicate whose column is absent from the header never matches, so
\* nothing is ever written.
UnresolvedPredicateNoOutput ==
    (/\ Len(Records(stream)) >= 2
     /\ \E k \in 1..Len(args.filters) :
            ~Contains(HeaderOf(stream), args.filters[k].column))
        => state.out = <<>>

\* C4: predicates are ANDed. For predicates on pairwise distinct columns
\* that each occur once in the header, a step writes one line for each data
\* record it ends that matches every predicate, and none for the others
\* (records of which the projection selects at least one field).
DistinctOnceInHeader(header, filters) ==
    /\ \A j, k \in 1..Len(filters) :
            j # k => filters[j].column # filters[k].column
    /\ \A k \in 1..Len(filters) :
            Cardinality({i \in 1..Len(header) :
                            header[i] = filters[k].column}) = 1

AndedStep ==
    LET recs   == Records(stream')
        header == recs[1]
        ended  == {k \in (Ended(stream, pc) + 1)..Ended(stream', pc') : k >= 2}
    IN  (/\ ~state'.panicked
         /\ ended # {}
         /\ DistinctOnceInHeader(header, args.filters)
         /\ \A k \in ended : ProjectionOf(recs[k], header, args.columns) # <<>>)
            => Len(state'.out) - Len(state.out) =
                   Cardinality({k \in ended :
                                   MatchesAll(recs[k], header, args.filters)})

WhereIsAnd == [][AndedStep]_vars

\* C4 witness: two predicates on different columns, both met by the one data
\* record, whose line has been written.
WhereIsAndWitness ==
    /\ pc = "done"
    /\ Len(args.filters) = 2
    /\ DistinctOnceInHeader(HeaderOf(stream), args.filters)
    /\ Len(Records(stream)) = 2
    /\ MatchesAll(Records(stream)[2], HeaderOf(stream), args.filters)
    /\ Len(state.out) = 1

\* C5: an input without data records writes nothing.
HeaderOnlyNoOutput ==
    DataRecords(stream) = <<>> => state.out = <<>>

\* C6: without -select and -where the output is one line per data record,
\* in order, each all of the record's fields joined by commas.
AllColumnsOutput ==
    (pc = "done" /\ args.columns = <<>> /\ args.filters = <<>>) =>
        LET data == DataRecords(stream)
        IN  state.out = [k \in 1..Len(data) |-> JoinLine(data[k])]

\* C7: a stream that ends in a data record without a record delimiter gives
\* the output of the same stream with the delimiter appended.
FinalFlushAsDelimited ==
    LET text == NoLF(stream)
    IN  (/\ pc = "done"
         /\ Len(Records(stream)) >= 2
         /\ text[Len(text)] # CR)
            => state.out = WholeRun(args, stream \o <<CR>>).out

\* C8 (as claimed): of a name that occurs more than once in the header, only
\* the first occurrence is resolved, for -select and for -where.
FirstOccurrence(header, i) == \A j \in 1..(i - 1) : header[j] # header[i]

FirstOccurrenceOnly ==
    ~state.in_header =>
        LET header == HeaderOf(stream)
        IN  /\ \A k \in 1..Len(state.column_indexes) :
                    FirstOccurrence(header, state.column_indexes[k] + 1)
            /\ \A k \in 1..Len(state.filters) :
                    FirstOccurrence(header, state.filters[k].column_index + 1)

\* C8 (amended): every occurrence is resolved. After the header the
\* projection indexes are the indexes of all header fields that -select
\* names, in order, and there is one resolved filter for every header field
\* that a predicate names, with the value of the first such predicate.
EveryOccurrenceResolved ==
    ~state.in_header =>
        LET header == HeaderOf(stream)
            n      == Len(header)
            pos    == [i \in 1..n |-> i]
            sel    == SelectSeq(pos, LAMBDA i : Contains(args.columns, header[i]))
            named  == SelectSeq(pos, LAMBDA i :
                        \E k \in 1..Len(args.filters) :
                            args.filters[k].column = header[i])
            first(i) == CHOOSE k \in 1..Len(args.filters) :
                            /\ args.filters[k].column = header[i]
                            /\ \A j \in 1..(k - 1) :
                                    args.filters[j].column # header[i]
        IN  /\ state.column_indexes = [k \in 1..Len(sel) |-> sel[k] - 1]
            /\ Len(state.filters) = Len(named)
            /\ \A k \in 1..Len(named) :
                    /\ state.filters[k].column_index = named[k] - 1
                    /\ state.filters[k].value = args.filters[first(named[k])].value

\* C8 witness: the header names a selected and filtered column twice, and
\* both occurrences are resolved.
EveryOccurrenceWitness ==
    /\ ~state.in_header
    /\ ~state.panicked
    /\ Len(HeaderOf(stream)) = 2
    /\ HeaderOf(stream)[1] = HeaderOf(stream)[2]
    /\ state.column_indexes = <<0, 1>>
    /\ Len(state.filters) = 2

\* C9: when -select names only columns absent from the header, no line is
\* ever written.
UnresolvedSelectNoOutput ==
    (/\ Len(args.columns) > 0
     /\ \A i \in 1..Len(HeaderOf(stream)) :
            ~Contains(args.columns, HeaderOf(stream)[i]))
        => state.out = <<>>

\* C9 witness: a finished run whose -select resolved nothing and whose data
\* record met the predicate, with nothing written.
UnresolvedSelectWitness ==
    /\ pc = "done"
    /\ Len(args.columns) > 0
    /\ Len(args.filters) > 0
    /\ \A i \in 1..Len(HeaderOf(stream)) :
            ~Contains(args.columns, HeaderOf(stream)[i])
    /\ Len(Records(stream)) = 2
    /\ MatchesAll(Records(stream)[2], HeaderOf(stream), args.filters)
    /\ state.out = <<>>

\* C10: every line written is the projection of one data record: its
\* projected fields in header column order, each column once.
LinesInColumnOrder ==
    ~state.panicked =>
        \A k \in 1..Len(state.out) :
            \E j \in 2..Len(Records(stream)) :
                state.out[k] = JoinLine(ProjectionOf(Records(stream)[j],
                                                     HeaderOf(stream),
                                                     args.columns))

\* C11 (as claimed): the example input as written, its header line ended by
\* a lone LF, gives exactly the one line London.
ExampleAsWrittenGivesLondon ==
    (pc = "done" /\ stream = ExampleAsWritten) => state.out = <<TextLondon>>

\* C11 (amended): with the header line ended by CR LF the run writes exactly
\* the one line London; as written, the LF is dropped, the header's second
\* field reads cityAda, city resolves to no column and nothing is written.
ExampleOutput ==
    pc = "done" =>
        /\ stream = ExampleCRLF => state.out = <<TextLondon>>
        /\ stream = ExampleAsWritten =>
                /\ state.out = <<>>
                /\ HeaderOf(stream) = <<TextName, TextCity \o TextAda, TextLondon>>

\* C11 witness: the CR LF input was read to its end and London written.
ExampleOutputWitness ==
    /\ pc = "done"
    /\ stream = ExampleCRLF
    /\ state.out = <<TextLondon>>

\* The fields of the stream's last record that a delimiter has ended: all
\* but the pending one while the run reads, all of them once it is done.
FinalizedOfLast(bytes, p) ==
    LET recs == Records(bytes)
        cur  == recs[Len(recs)]
    IN  IF p = "done" THEN cur ELSE SubSeq(cur, 1, Len(cur) - 1)

\* C12: every data field that is not valid text aborts the run where it is
\* finalized: a run that has not aborted has finalized only valid data
\* fields.
EveryInvalidFieldAborts ==
    ~state.panicked =>
        LET recs == Records(stream)
            n    == Len(recs)
        IN  /\ \A k \in 2..(n - 1) : \A i \in 1..Len(recs[k]) :
                    Utf8Valid(recs[k][i])
            /\ n >= 2 =>
                    LET fin == FinalizedOfLast(stream, pc)
                    IN  \A i \in 1..Len(fin) : Utf8Valid(fin[i])

\* C15: the phase is Header exactly until the first record ends and never
\* again; from then on the projection indexes and every resolved filter's
\* index and expected value stay as they are.
ResolvedPairs(fs) ==
    [k \in 1..Len(fs) |-> <<fs[k].column_index, fs[k].value>>]

PhaseStep ==
    /\ ~state.panicked => (state.in_header <=> Ended(stream, pc) = 0)
    /\ ~state'.panicked => (state'.in_header <=> Ended(stream', pc') = 0)
    /\ ~state.in_header =>
            /\ ~state'.in_header
            /\ state'.column_indexes = state.column_indexes
            /\ ResolvedPairs(state'.filters) = ResolvedPairs(state.filters)

PhaseOnce == [][PhaseStep]_vars

\* C15 witness: in the data phase, a record has repeated the selected header
\* name and the projection indexes are still those of the header.
PhaseOnceWitness ==
    /\ ~state.in_header
    /\ ~state.panicked
    /\ Len(Records(stream)) = 2
    /\ state.column_index = 1
    /\ Records(stream)[2][1] = HeaderOf(stream)[1]
    /\ Contains(args.columns, HeaderOf(stream)[1])
    /\ state.column_indexes = <<0>>

\* C16: no two resolved filters share a field index; there is one resolved
\* filter for each header field that some predicate names, and it carries
\* the expected value of the first predicate on that name.
OneFilterPerIndex ==
    ~state.panicked =>
        LET header == HeaderOf(stream)
            fin    == IF state.in_header
                      THEN FinalizedOfLast(stream, pc) ELSE header
            fs     == state.filters
        IN  /\ \A j, k \in 1..Len(fs) :
                    j # k => fs[j].column_index # fs[k].column_index
            /\ Len(fs) = Cardinality({i \in 1..Len(fin) :
                            \E k \in 1..Len(args.filters) :
                                args.filters[k].column = fin[i]})
            /\ \A k \in 1..Len(fs) :
                    \E j \in 1..Len(args.filters) :
                        /\ args.filters[j].column = header[fs[k].column_index + 1]
                        /\ \A i \in 1..(j - 1) :
                                args.filters[i].column # args.filters[j].column
                        /\ fs[k].value = args.filters[j].value

\* C16 witness: two predicates on one column with different values, one
\* resolved filter, and a line written for a record that meets the first.
OneFilterPerIndexWitness ==
    /\ pc = "done"
    /\ Len(args.filters) = 2
    /\ args.filters[1].column = args.filters[2].column
    /\ args.filters[1].value # args.filters[2].value
    /\ Len(state.filters) = 1
    /\ Len(Records(stream)) = 2
    /\ state.filters[1].column_index + 1 <= Len(Records(stream)[2])
    /\ Records(stream)[2][state.filters[1].column_index + 1] = args.filters[1].value
    /\ Len(state.out) = 1

\* C17: line feeds change nothing: the lines written (and whether the run
\* aborted) are those of the run on the stream with every LF removed.
LineFeedIgnored ==
    LET w == IF pc = "done" THEN WholeRun(args, NoLF(stream))
                            ELSE WholeLoop(args, NoLF(stream))
    IN  state.out = w.out /\ state.panicked = w.panicked

\* C17 witness: a line was written from a field with a line feed inside it.
LineFeedIgnoredWitness ==
    /\ pc = "done"
    /\ state.out # <<>>
    /\ \E i \in 2..(Len(stream) - 1) :
            /\ stream[i] = LF
            /\ stream[i - 1] \in {97, 98}
            /\ stream[i + 1] \in {97, 98}
            /\ \A j \in i..Len(stream) : stream[j] # CR

\* C18: a resolved filter's matched flag is true exactly when the record
\* being read has finalized the field at the filter's index with the expected
\* value; so it is false at the start of every record and after the run.
FlagsFollowRecord ==
    ~state.panicked =>
        LET fin == FinalizedOfLast(stream, pc)
        IN  \A k \in 1..Len(state.filters) :
                LET f == state.filters[k]
                IN  f.matched <=>
                        /\ pc = "run"
                        /\ ~state.in_header
                        /\ f.column_index + 1 <= Len(fin)
                        /\ fin[f.column_index + 1] = f.value

\* C18 witness: the record before met the predicate, and at the start of
\* the next record the flag is false.
FlagsFollowRecordWitness ==
    /\ pc = "run"
    /\ ~state.panicked
    /\ Len(Records(stream)) = 3
    /\ Len(state.filters) = 1
    /\ state.filters[1].column_index = 0
    /\ Records(stream)[2][1] = state.filters[1].value
    /\ state.column_index = 0
    /\ ~state.filters[1].matched

\* C19: while the run reads, the field index is the number of commas since
\* the last CR (or the start), and the pending field holds the bytes since
\* the last comma or CR, line feeds left out.
CommasSinceCR(bytes) ==
    Cardinality({i \in 1..Len(bytes) :
                    /\ bytes[i] = COMMA
                    /\ \A j \in i..Len(bytes) : bytes[j] # CR})

SinceDelimiter(bytes) ==
    LET cut == {i \in 1..Len(bytes) : bytes[i] \in {COMMA, CR}}
        from == IF cut = {} THEN 1
                ELSE 1 + CHOOSE i \in cut : \A j \in cut : j <= i
    IN  NoLF(SubSeq(bytes, from, Len(bytes)))

FieldIndexCountsCommas ==
    (pc = "run" /\ ~state.panicked) =>
        /\ state.column_index = CommasSinceCR(stream)
        /\ state.current_value = SinceDelimiter(stream)

\* C19 witness: the header had two fields, and in the next record the index
\* has counted from zero again to one.
FieldIndexWitness ==
    /\ pc = "run"
    /\ ~state.panicked
    /\ Len(Records(stream)) = 2
    /\ Len(HeaderOf(stream)) >= 2
    /\ state.column_index = 1
    /\ \E i \in 1..Len(stream) : stream[i] = LF

\* C20: the header is never written: in the Header phase nothing is pending
\* and nothing written, and the record end that ends the header writes no
\* line.
HeaderNeverWritten ==
    /\ state.in_header => (state.to_print = <<>> /\ state.out = <<>>)
    /\ (~state.panicked /\ Ended(stream, pc) <= 1) => state.out = <<>>

\* C20 witness: the header has ended, its field equal to the predicate's
\* expected value, and nothing was written.
HeaderNeverWrittenWitness ==
    /\ ~state.in_header
    /\ ~state.panicked
    /\ Ended(stream, pc) = 1
    /\ Len(state.filters) = 1
    /\ HeaderOf(stream)[1] = state.filters[1].value
    /\ state.out = <<>>

\* The command surface, read off the token list alone.  NameRun is the
\* number of leading tokens that do not start with "-".
RECURSIVE NameRun(_)
NameRun(ts) ==
    IF Len(ts) = 0 \/ StartsWithDash(ts[1]) THEN 0 ELSE 1 + NameRun(Tail(ts))

Drop(ts, k) == SubSeq(ts, k + 1, Len(ts))

\* The tokens after the executable path are a sequence of -in <path>,
\* -select <name>..., -where <column> -eq <value>.
RECURSIVE WellFormedFlags(_)
WellFormedFlags(ts) ==
    IF Len(ts) = 0 THEN TRUE
    ELSE IF ts[1] = TokIn THEN Len(ts) >= 2 /\ WellFormedFlags(Drop(ts, 2))
    ELSE IF ts[1] = TokSelect
         THEN WellFormedFlags(Drop(ts, 1 + NameRun(Tail(ts))))
    ELSE IF ts[1] = TokWhere
         THEN Len(ts) >= 4 /\ ts[3] = TokEq /\ WellFormedFlags(Drop(ts, 4))
    ELSE FALSE

WellFormed(items) == Len(items) >= 1 /\ WellFormedFlags(Tail(items))

\* The names that follow the -select flags of a well-formed token list.
RECURSIVE NamesAfterSelects(_)
NamesAfterSelects(ts) ==
    IF Len(ts) = 0 THEN <<>>
    ELSE IF ts[1] = TokIn THEN NamesAfterSelects(Drop(ts, 2))
    ELSE IF ts[1] = TokSelect
         THEN SubSeq(ts, 2, 1 + NameRun(Tail(ts)))
                \o NamesAfterSelects(Drop(ts, 1 + NameRun(Tail(ts))))
    ELSE NamesAfterSelects(Drop(ts, 4))

\* C13 (as claimed): every malformed command line ends in an argument error
\* returned by parse_args.
MalformedGivesArgumentError ==
    (~WellFormed(cmd.items) /\ pc \notin {"start", "parse"})
        => pc \in ArgErrors

\* C13 (amended): a malformed command line never reaches the read loop: the
\* run ends in an argument error, or in the panic of an earlier -in whose
\* file cannot be opened; either way nothing is read and nothing written.
\* An argument error is returned for malformed command lines only.
MalformedNeverRuns ==
    /\ pc \in {"run", "done"} => WellFormed(cmd.items)
    /\ pc \in ArgErrors => ~WellFormed(cmd.items)
    /\ ~WellFormed(cmd.items) =>
            \/ pc \in {"start", "parse"}
            \/ pc \in ArgErrors
            \/ pc = "openfail" /\ Contains(SubSeq(cmd.items, 1, cmd.index - 1), TokIn)
    /\ pc \notin {"run", "done"} => (stream = <<>> /\ state = InitState)

\* C13 witness: -where a b ... ended in the error for a token that is not
\* -eq, with nothing read.
MalformedNeverRunsWitness ==
    /\ pc = "err_not_eq"
    /\ cmd.index = 4
    /\ cmd.items[2] = TokWhere
    /\ stream = <<>>

\* C14: a -select step pushes the names up to the next token that starts
\* with "-" (or the end), leaves the cursor in front of that token, and adds
\* to the names of earlier -select flags; when parsing ends the projection
\* list is every name after every -select, in order.
SelectStep ==
    /\ (/\ pc = "parse"
        /\ cmd.index < Len(cmd.items)
        /\ cmd.items[cmd.index + 1] = TokSelect)
        => LET n == NameRun(Drop(cmd.items, cmd.index + 1))
           IN  /\ cmd'.index = cmd.index + 1 + n
               /\ cmd'.items = cmd.items
               /\ args'.columns = args.columns
                        \o SubSeq(cmd.items, cmd.index + 2, cmd.index + 1 + n)
               /\ args'.filters = args.filters
               /\ pc' = "parse"
    /\ (pc = "parse" /\ pc' = "run")
        => args'.columns = NamesAfterSelects(Tail(cmd.items))

SelectGreedy == [][SelectStep]_vars

\* C14 witness: two -select flags were parsed and the list holds the name
\* of the first followed by the name of the second.
SelectGreedyWitness ==
    /\ pc = "run"
    /\ Len(cmd.items) = 5
    /\ cmd.items[2] = TokSelect
    /\ cmd.items[4] = TokSelect
    /\ args.columns = <<cmd.items[3], cmd.items[5]>>
    /\ cmd.items[3] # cmd.items[5]

====
